---- MODULE Spec2Model ----
(***************************************************************************)
(* Model of the Lasair -> Zooniverse subject pipeline:                     *)
(*   - LSSTSubjectGenerator (lsst_zooniverse/generator.py), the two-level  *)
(*     iterator over object ids and image-url groups, together with the    *)
(*     media renderers it drives (ImageLocation, TripletImageLocation,     *)
(*     JSONLocation) and pyplot's table of open figures;                   *)
(*   - network_retry (lsst_zooniverse/client.py).                          *)
(* zooniverse_lsst/generator.py is the same code with logging added.       *)
(***************************************************************************)
EXTENDS Integers, Sequences, FiniteSets, TLC

VARIABLES
    \* ---- LSSTSubjectGenerator fields
    obj_ids,            \* self.obj_ids: the ids the iterator has not pulled yet
    current_obj,        \* self.current_obj: None or the last payload stored
    obj_image_urls,     \* self.obj_image_urls: None or the groups not drawn yet
    obj_photometry,     \* self.obj_photometry: None or diaSourceId -> records
    media_generators,   \* self.media_generators
    \* ---- environment
    numGroups,          \* the broker's catalogue: object id -> number of groups
    openFigs,           \* pyplot: number of figures open (created, not closed)
    \* ---- observation of the calls made so far
    ret,                \* what the most recent __next__ call did
    yieldedCount,       \* subjects returned so far
    stops,              \* StopIteration signals so far (counted up to 2)
    errored,            \* some call raised something other than StopIteration
    fetchCount,         \* object id -> number of lasair.object calls for it
    \* ---- network_retry
    pc,                 \* "idle" | "loop" | "returned" | "raised"
    attempts,           \* invocations of f so far
    final_e,            \* final_e: None or the last transient exception caught
    slept,              \* seconds slept so far
    outcome,            \* what network_retry handed to its caller
    lastF,              \* what the most recent invocation of f did
    \* ---- a JSONLocation on its own
    json_photometry,    \* self.photometry of the JSONLocation
    json_doc            \* None or the document generate() serialized

genVars == <<obj_ids, current_obj, obj_image_urls, obj_photometry,
             media_generators, numGroups, openFigs, ret, yieldedCount,
             stops, errored, fetchCount>>
retryVars == <<pc, attempts, final_e, slept, outcome, lastF>>
jsonVars == <<json_photometry, json_doc>>
vars == <<genVars, retryVars, jsonVars>>

\* ---------------------------------------------------------------- bounds
MaxObjs == 2
MaxGroups == 2
MaxPhot == 3

\* ------------------------------------------------------- Python optionals
None == <<>>
Some(x) == <<x>>

\* ------------------------------------------------------------ data model
Labels == {"Science", "Template", "Difference"}
LabelOrder == <<"Science", "Template", "Difference">>
SrcIds == {1, 2}
\* the diaSourceId of a payload's j-th group (detections alternate between
\* the two ids, so that a diaSourcesList may hold none, one or several
\* records of a group's id)
SrcOf(j) == IF j % 2 = 1 THEN 1 ELSE 2
\* diaSourceId sequences a payload's diaSourcesList may carry
RecPatterns == {<<1>>, <<1, 2, 1>>}

\* one image-url group of object id at position j: a dict with a diaSourceId
\* and one URL per label it carries (the URL is <<id, j, label>>)
MkGroup(id, j, d, ls) ==
    [k \in {"diaSourceId"} \cup ls |->
        IF k = "diaSourceId" THEN d ELSE <<id, j, k>>]

\* one diaSource record of object id, k-th of its diaSourcesList
MkRec(id, k, d) ==
    [diaObjectId |-> id, diaSourceId |-> d,
     band |-> IF k % 2 = 1 THEN "g" ELSE "r",
     midpointMjdTai |-> k, psfFlux |-> 10 * id + k, psfFluxErr |-> 1]

\* the group lists a payload of n groups may carry: every group complete
\* (bad = 0), or the bad-th group lacking its Template cutout
GroupLists(id, n) ==
    {[j \in 1..n |->
        MkGroup(id, j, SrcOf(j),
                IF j = bad THEN Labels \ {"Template"} ELSE Labels)] :
        bad \in 0..n}

RecLists(id) == {[k \in 1..Len(p) |-> MkRec(id, k, p[k])] : p \in RecPatterns}

\* what lasair.object(obj_id, lasair_added=True) may do: raise, or return a
\* payload that is well formed, lacks lasairData/imageUrls, or lacks
\* diaSourcesList
Responses(id) ==
    {[kind |-> "raise", id |-> id, imageUrls |-> <<>>, diaSourcesList |-> <<>>],
     [kind |-> "no_imageUrls", id |-> id, imageUrls |-> <<>>,
      diaSourcesList |-> <<>>]}
    \cup {[kind |-> "no_diaSourcesList", id |-> id, imageUrls |-> g,
           diaSourcesList |-> <<>>] : g \in GroupLists(id, numGroups[id])}
    \cup {[kind |-> "ok", id |-> id, imageUrls |-> g, diaSourcesList |-> r] :
            g \in GroupLists(id, numGroups[id]), r \in RecLists(id)}

NoResponse == [kind |-> "none", id |-> 0, imageUrls |-> <<>>,
               diaSourcesList |-> <<>>]

\* what fits.open finds behind each label's URL
AllGood == [l \in Labels |-> "2d"]
FitsOutcomes == {AllGood} \cup {[AllGood EXCEPT ![l] = "no2d"] : l \in Labels}

\* a fault of the plotting library in the at-th renderer of a generate call
\* (at = 0: none), while drawing ("plot") or while encoding ("savefig")
Faults(n) == {[at |-> 0, stage |-> "none"]}
             \cup [at : 1..n, stage : {"plot", "savefig"}]
NoFault == [at |-> 0, stage |-> "none"]

\* ------------------------------------------------------- media renderers
\* IMAGE_KEY of the three single-image renderers
IMAGE_KEY(g) ==
    CASE g = "ScienceImageLocation" -> "Science"
      [] g = "TemplateImageLocation" -> "Template"
      [] g = "DifferenceImageLocation" -> "Difference"

\* TripletImageLocation.IMAGE_LOCATIONS
IMAGE_LOCATIONS == <<"ScienceImageLocation", "TemplateImageLocation",
                     "DifferenceImageLocation">>

\* ImageLocation.fits_data: self.urls[IMAGE_KEY] raises KeyError when the
\* label is missing; no HDU with 2-D data raises ValueError
fits_data(key, urls, fits) ==
    IF key \notin DOMAIN urls THEN [exc |-> "KeyError", data |-> <<>>]
    ELSE IF fits[key] = "no2d" THEN [exc |-> "ValueError", data |-> <<>>]
    ELSE [exc |-> "", data |-> <<urls[key]>>]

\* ImageLocation.plot: fits_data first, then pyplot.subplots() creates the
\* figure, then imshow / tight_layout draw on it
ImageLocation_plot(key, urls, fits, stage) ==
    LET fd == fits_data(key, urls, fits) IN
    IF fd.exc # "" THEN [exc |-> fd.exc, opened |-> 0, fig |-> <<>>]
    ELSE IF stage = "plot" THEN [exc |-> "PlotError", opened |-> 1, fig |-> <<>>]
    ELSE [exc |-> "", opened |-> 1, fig |-> fd.data]

\* TripletImageLocation.plot from panel k on: the figure exists already
\* (pyplot.subplots is the first statement); each panel reads its FITS data
\* and draws it
RECURSIVE TripletPanels(_, _, _, _, _)
TripletPanels(k, urls, fits, stage, drawn) ==
    IF k > Len(IMAGE_LOCATIONS)
    THEN [exc |-> "", opened |-> 1, fig |-> drawn]
    ELSE LET fd == fits_data(IMAGE_KEY(IMAGE_LOCATIONS[k]), urls, fits) IN
         IF fd.exc # "" THEN [exc |-> fd.exc, opened |-> 1, fig |-> <<>>]
         ELSE IF stage = "plot"
              THEN [exc |-> "PlotError", opened |-> 1, fig |-> <<>>]
              ELSE TripletPanels(k + 1, urls, fits, stage, drawn \o fd.data)

TripletImageLocation_plot(urls, fits, stage) ==
    TripletPanels(1, urls, fits, stage, <<>>)

\* ImageLocation.as_file on the figure plot() made: savefig, then
\* pyplot.close(fig), then return (img_buf, "image/png")
ImageLocation_as_file(p, stage) ==
    IF p.exc # ""
    THEN [exc |-> p.exc, opened |-> p.opened, closed |-> 0, loc |-> <<>>]
    ELSE IF stage = "savefig"
    THEN [exc |-> "SaveError", opened |-> p.opened, closed |-> 0, loc |-> <<>>]
    ELSE [exc |-> "", opened |-> p.opened, closed |-> 1,
          loc |-> <<[data |-> <<"png", p.fig>>, mime |-> "image/png"]>>]

\* JSONLocation.GLYPHS
GLYPHS == <<<<"white", "circle">>, <<"red", "square">>>>

\* the keys of lcs in insertion order: each band at its first appearance
RECURSIVE BandOrder(_, _)
BandOrder(photometry, seen) ==
    IF photometry = <<>> THEN seen
    ELSE LET b == Head(photometry).band IN
         BandOrder(Tail(photometry),
                   IF \E i \in 1..Len(seen) : seen[i] = b
                   THEN seen ELSE Append(seen, b))

\* lcs[band]: the band's records, appended in photometry order
RECURSIVE BandRecords(_, _)
BandRecords(photometry, b) ==
    IF photometry = <<>> THEN <<>>
    ELSE IF Head(photometry).band = b
         THEN <<Head(photometry)>> \o BandRecords(Tail(photometry), b)
         ELSE BandRecords(Tail(photometry), b)

\* generate taking the last style for every series past the end of glyphs,
\* instead of cycling
JSONLocation_generate_nocycle(photometry) ==
    LET bands == BandOrder(photometry, <<>>) IN
    [data |->
        [i \in 1..Len(bands) |->
            LET lc == BandRecords(photometry, bands[i])
                style == GLYPHS[IF i > Len(GLYPHS) THEN Len(GLYPHS) ELSE i]
            IN [seriesData |->
                    [k \in 1..Len(lc) |->
                        [x |-> lc[k].midpointMjdTai, y |-> lc[k].psfFlux]],
                seriesOptions |->
                    [color |-> style[1], glyph |-> style[2],
                     label |-> "Lightcurve"]]]]

\* JSONLocation.generate with the default labels and glyphs: the document
\* handed to json.dumps
JSONLocation_generate(photometry) ==
    LET bands == BandOrder(photometry, <<>>) IN
    [data |->
        [i \in 1..Len(bands) |->
            LET lc == BandRecords(photometry, bands[i])
                style == GLYPHS[((i - 1) % Len(GLYPHS)) + 1]
            IN [seriesData |->
                    [k \in 1..Len(lc) |->
                        [x |-> lc[k].midpointMjdTai, y |-> lc[k].psfFlux]],
                seriesOptions |->
                    [color |-> style[1], glyph |-> style[2],
                     label |-> "Lightcurve"]]]]

\* JSONLocation.as_file
JSONLocation_as_file(photometry) ==
    [exc |-> "", opened |-> 0, closed |-> 0,
     loc |-> <<[data |-> <<"json", JSONLocation_generate(photometry)>>,
                mime |-> "application/json"]>>]

\* g(urls, photometry).as_file() for a renderer class g
as_file(g, urls, photometry, fits, stage) ==
    IF g = "JSONLocation" THEN JSONLocation_as_file(photometry)
    ELSE IF g = "TripletImageLocation"
    THEN ImageLocation_as_file(TripletImageLocation_plot(urls, fits, stage), stage)
    ELSE ImageLocation_as_file(
             ImageLocation_plot(IMAGE_KEY(g), urls, fits, stage), stage)

\* ---------------------------------------------------- LSSTSubjectGenerator
DEFAULT_MEDIA_GENERATORS == <<"ScienceImageLocation", "TemplateImageLocation",
                              "DifferenceImageLocation">>

\* the renderer lists a caller configures
MediaConfigs == {DEFAULT_MEDIA_GENERATORS,
                 <<"TripletImageLocation">>,
                 <<"ScienceImageLocation", "JSONLocation">>}

\* the list comprehension of generate from renderer k on: as_file results in
\* order, ending at the first one that raises
RECURSIVE Locations(_, _, _, _, _, _)
Locations(gens, k, urls, photometry, fits, fault) ==
    IF k > Len(gens) THEN <<>>
    ELSE LET r == as_file(gens[k], urls, photometry, fits,
                          IF fault.at = k THEN fault.stage ELSE "none")
         IN IF r.exc # "" THEN <<r>>
            ELSE <<r>> \o Locations(gens, k + 1, urls, photometry, fits, fault)

RECURSIVE SumOf(_, _)
SumOf(rs, field) ==
    IF rs = <<>> THEN 0 ELSE Head(rs)[field] + SumOf(Tail(rs), field)

\* generate with add_location called as each renderer returns, instead of
\* after all of them
generate_interleaved(gens, urls, photometry, fits, fault) ==
    LET rs == Locations(gens, 1, urls, photometry, fits, fault)
        failed == rs # <<>> /\ rs[Len(rs)].exc # ""
    IN [exc |-> IF failed THEN rs[Len(rs)].exc ELSE "",
        subject |-> IF failed THEN <<>>
                    ELSE [k \in 1..Len(rs) |-> rs[k].loc[1]],
        adds |-> IF failed THEN Len(rs) - 1 ELSE Len(rs),
        opened |-> SumOf(rs, "opened"),
        closed |-> SumOf(rs, "closed")]

\* generate adding the locations last renderer first
generate_reversed(gens, urls, photometry, fits, fault) ==
    LET rs == Locations(gens, 1, urls, photometry, fits, fault)
        failed == rs # <<>> /\ rs[Len(rs)].exc # ""
    IN [exc |-> IF failed THEN rs[Len(rs)].exc ELSE "",
        subject |-> IF failed THEN <<>>
                    ELSE [k \in 1..Len(rs) |-> rs[Len(rs) + 1 - k].loc[1]],
        adds |-> IF failed THEN 0 ELSE Len(rs),
        opened |-> SumOf(rs, "opened"),
        closed |-> SumOf(rs, "closed")]

\* LSSTSubjectGenerator.generate: every renderer's as_file first, then a
\* Subject and one add_location per location. adds counts add_location calls.
generate(gens, urls, photometry, fits, fault) ==
    LET rs == Locations(gens, 1, urls, photometry, fits, fault)
        failed == rs # <<>> /\ rs[Len(rs)].exc # ""
    IN [exc |-> IF failed THEN rs[Len(rs)].exc ELSE "",
        subject |-> IF failed THEN <<>>
                    ELSE [k \in 1..Len(rs) |-> rs[k].loc[1]],
        adds |-> IF failed THEN 0 ELSE Len(rs),
        opened |-> SumOf(rs, "opened"),
        closed |-> SumOf(rs, "closed")]

\* the loop of _parse_obj: obj_photometry[s["diaSourceId"]].append(s) for
\* each record in order (a defaultdict(list): absent keys read as empty)
RECURSIVE GroupBySource(_, _)
GroupBySource(diaSourcesList, dict) ==
    IF diaSourcesList = <<>> THEN dict
    ELSE LET s == Head(diaSourcesList) IN
         GroupBySource(Tail(diaSourcesList),
             [dict EXCEPT ![s.diaSourceId] = Append(@, s)])

EmptyDict == [d \in SrcIds |-> <<>>]

\* _parse_obj catching the failure of lasair.object and leaving an object
\* without groups behind
parse_obj_swallow(resp) ==
    CASE resp.kind = "raise" ->
            [exc |-> "", current_obj |-> Some(resp),
             obj_image_urls |-> Some(<<>>),
             obj_photometry |-> Some(EmptyDict)]
      [] resp.kind = "no_imageUrls" ->
            [exc |-> "KeyError", current_obj |-> Some(resp),
             obj_image_urls |-> obj_image_urls,
             obj_photometry |-> obj_photometry]
      [] resp.kind = "no_diaSourcesList" ->
            [exc |-> "KeyError", current_obj |-> Some(resp),
             obj_image_urls |-> Some(resp.imageUrls),
             obj_photometry |-> Some(EmptyDict)]
      [] resp.kind = "ok" ->
            [exc |-> "", current_obj |-> Some(resp),
             obj_image_urls |-> Some(resp.imageUrls),
             obj_photometry |->
                 Some(GroupBySource(resp.diaSourcesList, EmptyDict))]

\* _parse_obj without line 234: the records are appended to the dict of the
\* previous object
parse_obj_accumulate(resp) ==
    CASE resp.kind = "raise" ->
            [exc |-> "FetchError", current_obj |-> current_obj,
             obj_image_urls |-> obj_image_urls,
             obj_photometry |-> obj_photometry]
      [] resp.kind = "no_imageUrls" ->
            [exc |-> "KeyError", current_obj |-> Some(resp),
             obj_image_urls |-> obj_image_urls,
             obj_photometry |-> obj_photometry]
      [] resp.kind = "no_diaSourcesList" ->
            [exc |-> "KeyError", current_obj |-> Some(resp),
             obj_image_urls |-> Some(resp.imageUrls),
             obj_photometry |->
                 IF obj_photometry = None THEN Some(EmptyDict)
                 ELSE obj_photometry]
      [] resp.kind = "ok" ->
            [exc |-> "", current_obj |-> Some(resp),
             obj_image_urls |-> Some(resp.imageUrls),
             obj_photometry |->
                 Some(GroupBySource(resp.diaSourcesList,
                          IF obj_photometry = None THEN EmptyDict
                          ELSE obj_photometry[1]))]

\* LSSTSubjectGenerator._parse_obj(obj_id) when lasair.object answers resp:
\* the fields it leaves behind and the exception it ends with ("": none)
parse_obj(resp) ==
    CASE resp.kind = "raise" ->
            [exc |-> "FetchError", current_obj |-> current_obj,
             obj_image_urls |-> obj_image_urls,
             obj_photometry |-> obj_photometry]
      [] resp.kind = "no_imageUrls" ->
            [exc |-> "KeyError", current_obj |-> Some(resp),
             obj_image_urls |-> obj_image_urls,
             obj_photometry |-> obj_photometry]
      [] resp.kind = "no_diaSourcesList" ->
            [exc |-> "KeyError", current_obj |-> Some(resp),
             obj_image_urls |-> Some(resp.imageUrls),
             obj_photometry |-> Some(EmptyDict)]
      [] resp.kind = "ok" ->
            [exc |-> "", current_obj |-> Some(resp),
             obj_image_urls |-> Some(resp.imageUrls),
             obj_photometry |->
                 Some(GroupBySource(resp.diaSourcesList, EmptyDict))]

\* the record of one __next__ call
Ret(result, exc, fetched, pulled, pos, urls, photometry, g) ==
    [result |-> result, exc |-> exc, fetched |-> fetched, pulled |-> pulled,
     pos |-> pos, urls |-> urls, photometry |-> photometry,
     subject |-> g.subject, adds |-> g.adds,
     opened |-> g.opened, closed |-> g.closed]

NoGen == [exc |-> "", subject |-> <<>>, adds |-> 0, opened |-> 0, closed |-> 0]
NoPos == <<0, 0>>

\* next(self.obj_image_urls), the photometry lookup and generate(), for an
\* inner iterator that holds the groups `groups` of payload obj (lines
\* 242-243 / 246-247 / 250-251, then 253)
draw_and_generate(ids, obj, groups, photometry, fetched, pulled, fits, fault) ==
    IF groups = <<>>
    THEN [obj_ids |-> ids, current_obj |-> obj,
          obj_image_urls |-> Some(groups), obj_photometry |-> photometry,
          ret |-> Ret("StopIteration", "StopIteration", fetched, pulled,
                      NoPos, None, <<>>, NoGen)]
    ELSE LET next_urls == Head(groups)
             next_photometry == photometry[1][next_urls["diaSourceId"]]
             pos == <<obj[1].id, Len(obj[1].imageUrls) - Len(groups) + 1>>
             g == generate(media_generators, next_urls, next_photometry,
                           fits, fault)
         IN [obj_ids |-> ids, current_obj |-> obj,
             obj_image_urls |-> Some(Tail(groups)),
             obj_photometry |-> photometry,
             ret |-> Ret(IF g.exc = "" THEN "subject" ELSE "raise", g.exc,
                         fetched, pulled, pos, Some(next_urls),
                         next_photometry, g)]

\* the pull-and-parse step as a loop that goes on to the next id when the
\* object fetched has no groups
pull_parse_draw_skip_empty(resp, fits, fault) ==
    IF obj_ids = <<>>
    THEN [obj_ids |-> obj_ids, current_obj |-> current_obj,
          obj_image_urls |-> obj_image_urls, obj_photometry |-> obj_photometry,
          ret |-> Ret("StopIteration", "StopIteration", <<>>, <<>>,
                      NoPos, None, <<>>, NoGen)]
    ELSE LET obj_id == Head(obj_ids)
             p == parse_obj(resp)
         IN IF p.exc # ""
            THEN [obj_ids |-> Tail(obj_ids), current_obj |-> p.current_obj,
                  obj_image_urls |-> p.obj_image_urls,
                  obj_photometry |-> p.obj_photometry,
                  ret |-> Ret("raise", p.exc, <<resp.kind>>, <<obj_id>>,
                              NoPos, None, <<>>, NoGen)]
            ELSE IF p.obj_image_urls[1] = <<>> /\ Tail(obj_ids) # <<>>
            THEN LET id2 == Head(Tail(obj_ids))
                     r2 == CHOOSE r \in Responses(id2) : r.kind = "ok"
                 IN draw_and_generate(Tail(Tail(obj_ids)), Some(r2),
                        r2.imageUrls,
                        Some(GroupBySource(r2.diaSourcesList, EmptyDict)),
                        <<resp.kind, r2.kind>>, <<obj_id, id2>>, fits, fault)
            ELSE draw_and_generate(Tail(obj_ids), p.current_obj,
                     p.obj_image_urls[1], p.obj_photometry,
                     <<resp.kind>>, <<obj_id>>, fits, fault)

\* self._parse_obj(next(self.obj_ids)) followed by the single retry of the
\* draw (lines 245-247 and 249-251)
pull_parse_draw(resp, fits, fault) ==
    IF obj_ids = <<>>
    THEN [obj_ids |-> obj_ids, current_obj |-> current_obj,
          obj_image_urls |-> obj_image_urls, obj_photometry |-> obj_photometry,
          ret |-> Ret("StopIteration", "StopIteration", <<>>, <<>>,
                      NoPos, None, <<>>, NoGen)]
    ELSE LET obj_id == Head(obj_ids)
             p == parse_obj(resp)
         IN IF p.exc # ""
            THEN [obj_ids |-> Tail(obj_ids), current_obj |-> p.current_obj,
                  obj_image_urls |-> p.obj_image_urls,
                  obj_photometry |-> p.obj_photometry,
                  ret |-> Ret("raise", p.exc, <<resp.kind>>, <<obj_id>>,
                              NoPos, None, <<>>, NoGen)]
            ELSE draw_and_generate(Tail(obj_ids), p.current_obj,
                     p.obj_image_urls[1], p.obj_photometry,
                     <<resp.kind>>, <<obj_id>>, fits, fault)

\* the state after a __next__ call whose effect is o
Apply(o) ==
    /\ obj_ids' = o.obj_ids
    /\ current_obj' = o.current_obj
    /\ obj_image_urls' = o.obj_image_urls
    /\ obj_photometry' = o.obj_photometry
    /\ ret' = o.ret
    /\ openFigs' = openFigs + o.ret.opened - o.ret.closed
    /\ yieldedCount' = yieldedCount + (IF o.ret.result = "subject" THEN 1 ELSE 0)
    /\ stops' = IF o.ret.result = "StopIteration" /\ stops < 2
                THEN stops + 1 ELSE stops
    /\ errored' = (errored \/ o.ret.result = "raise")
    /\ fetchCount' = [i \in DOMAIN fetchCount |->
                        fetchCount[i]
                        + (IF \E k \in 1..Len(o.ret.pulled) :
                                 o.ret.pulled[k] = i /\ Len(o.ret.fetched) >= k
                           THEN 1 ELSE 0)]
    /\ UNCHANGED <<media_generators, numGroups, retryVars, jsonVars>>

\* the answers lasair.object may give to the id the call would pull
RespChoices ==
    IF obj_ids = <<>> THEN {NoResponse} ELSE Responses(Head(obj_ids))

\* what the FITS files and the plotting library do during the call, when the
\* call gets as far as rendering a group
EnvChoices(rendering) ==
    IF rendering
    THEN {<<f, NoFault>> : f \in FitsOutcomes}
         \cup {<<AllGood, x>> : x \in Faults(Len(media_generators))}
    ELSE {<<AllGood, NoFault>>}

\* __next__, first call: self.obj_image_urls is None (lines 248-251)
next_first ==
    /\ obj_image_urls = None
    /\ \E resp \in RespChoices :
         \E env \in EnvChoices(resp.kind = "ok" /\ resp.imageUrls # <<>>) :
            Apply(pull_parse_draw(resp, env[1], env[2]))

\* __next__ going on to the next id although the current object has groups
\* left
next_current_prefetch ==
    /\ obj_image_urls # None
    /\ obj_image_urls[1] # <<>>
    /\ \E resp \in RespChoices :
         \E env \in EnvChoices(resp.kind = "ok" /\ resp.imageUrls # <<>>) :
            Apply(pull_parse_draw(resp, env[1], env[2]))

\* __next__ while the current object has groups left (lines 240-243)
next_current ==
    /\ obj_image_urls # None
    /\ obj_image_urls[1] # <<>>
    /\ \E env \in EnvChoices(TRUE) :
         Apply(draw_and_generate(obj_ids, current_obj, obj_image_urls[1],
                                 obj_photometry, <<>>, <<>>, env[1], env[2]))

\* __next__ when the current object's groups are exhausted: the except
\* StopIteration branch (lines 244-247)
next_exhausted ==
    /\ obj_image_urls # None
    /\ obj_image_urls[1] = <<>>
    /\ \E resp \in RespChoices :
         \E env \in EnvChoices(resp.kind = "ok" /\ resp.imageUrls # <<>>) :
            Apply(pull_parse_draw(resp, env[1], env[2]))

\* ------------------------------------------------------------------ Init
InitRet == Ret("none", "", <<>>, <<>>, NoPos, None, <<>>, NoGen)

\* LSSTSubjectGenerator.__init__ over obj_ids = <<1, ..., m>>
GenInit(sizes, counts, configs) ==
    /\ \E m \in sizes :
         /\ obj_ids = [i \in 1..m |-> i]
         /\ numGroups \in [1..m -> counts]
         /\ fetchCount = [i \in 1..m |-> 0]
    /\ media_generators \in configs
    /\ current_obj = None
    /\ obj_image_urls = None
    /\ obj_photometry = None
    /\ openFigs = 0
    /\ ret = InitRet
    /\ yieldedCount = 0
    /\ stops = 0
    /\ errored = FALSE

\* ----------------------------------------------------------- network_retry
\* range(10) of the retry loop
RETRY_ATTEMPTS == 10
\* time.sleep(5)
RETRY_DELAY == 5

\* the except clause of the commented-out loop above network_retry, which
\* names JSONDecodeError too
Transient_and_json ==
    {"ProxyError", "ConnectionError", "PanoptesAPIException", "JSONDecodeError"}

\* the exception classes of the except clause (ProxyError is a subclass of
\* requests' ConnectionError), and classes it does not name
Transient == {"ProxyError", "ConnectionError", "PanoptesAPIException"}
OtherErrors == {"JSONDecodeError", "ValueError"}
ReturnValues == {"saved", "unchanged"}

\* what one invocation f(*args, **kwargs) may do; n numbers the invocation,
\* so that two exceptions of one class are still two exceptions
FOutcomes(n) ==
    {[kind |-> "return", what |-> v, n |-> n] : v \in ReturnValues}
    \cup {[kind |-> "raise", what |-> e, n |-> n] :
             e \in Transient \cup OtherErrors}

NoCall == [kind |-> "none", what |-> "", n |-> 0]

\* the handler keeping the first exception caught instead of the last
catch_first(e) == IF final_e = None THEN Some(e) ELSE final_e

\* except (...) as e: final_e = e
catch(e) == Some(e)

\* whether the for loop runs another iteration
loop_continues == attempts < RETRY_ATTEMPTS

\* what the code after the loop does: raise final_e if it is set, else fall
\* off the end (return None)
after_loop ==
    IF final_e # None
    THEN [kind |-> "raise", what |-> final_e[1].what, n |-> final_e[1].n]
    ELSE [kind |-> "return", what |-> "None", n |-> 0]

\* one iteration of the loop: invoke f; return its result, or catch a
\* transient exception and sleep, or let any other exception out
retry_attempt ==
    /\ pc = "loop"
    /\ loop_continues
    /\ \E r \in FOutcomes(attempts + 1) :
         /\ attempts' = attempts + 1
         /\ lastF' = r
         /\ IF r.kind = "return"
            THEN /\ pc' = "returned"
                 /\ outcome' = Some(r)
                 /\ UNCHANGED <<final_e, slept>>
            ELSE IF r.what \in Transient
            THEN /\ final_e' = catch(r)
                 /\ slept' = slept + RETRY_DELAY
                 /\ UNCHANGED <<pc, outcome>>
            ELSE /\ pc' = "raised"
                 /\ outcome' = Some(r)
                 /\ UNCHANGED <<final_e, slept>>
    /\ UNCHANGED <<genVars, jsonVars>>

\* the loop ran out of iterations (lines 40-41)
retry_exhausted ==
    /\ pc = "loop"
    /\ ~loop_continues
    /\ pc' = IF after_loop.kind = "raise" THEN "raised" ELSE "returned"
    /\ outcome' = Some(after_loop)
    /\ UNCHANGED <<attempts, final_e, slept, lastF>>
    /\ UNCHANGED <<genVars, jsonVars>>

RetryIdle ==
    /\ pc = "idle"
    /\ attempts = 0
    /\ final_e = None
    /\ slept = 0
    /\ outcome = None
    /\ lastF = NoCall

\* network_retry(f) has just been called: final_e = None, loop not started
RetryInit ==
    /\ pc = "loop"
    /\ attempts = 0
    /\ final_e = None
    /\ slept = 0
    /\ outcome = None
    /\ lastF = NoCall

\* no JSONLocation built on its own
JsonIdle ==
    /\ json_photometry = <<>>
    /\ json_doc = None

Init == GenInit(0..MaxObjs, 0..MaxGroups, MediaConfigs) /\ RetryIdle /\ JsonIdle

Next == next_first \/ next_current \/ next_exhausted

Spec == Init /\ [][Next]_vars

\* network_retry on its own, beside an iterator nobody advances
InitRetry ==
    GenInit({0}, {0}, {DEFAULT_MEDIA_GENERATORS}) /\ RetryInit /\ JsonIdle

NextRetry == retry_attempt \/ retry_exhausted

SpecRetry == InitRetry /\ [][NextRetry]_vars

\* the iterator over one object more than MaxObjs, each with at most one
\* group, under the default renderers
InitLong ==
    /\ GenInit({MaxObjs + 1}, {0, 1}, {DEFAULT_MEDIA_GENERATORS})
    /\ RetryIdle
    /\ JsonIdle

SpecLong == InitLong /\ [][Next]_vars

\* --------------------------------------------- JSONLocation.generate alone
\* the photometry bands and flux values a record may carry; NaN is the
\* float a masked flux reads as
Bands == {"g", "r", "i"}
NaN == "NaN"
Fluxes == {"1.5", NaN}

\* the k-th record of a photometry list (its time is its position)
MkPhot(k, band, flux) ==
    [diaSourceId |-> 1, band |-> band, midpointMjdTai |-> k,
     psfFlux |-> flux, psfFluxErr |-> "0.1"]

\* the photometry lists of at most MaxPhot records
PhotLists ==
    UNION {{[k \in 1..n |-> MkPhot(k, f[k][1], f[k][2])] :
               f \in [1..n -> Bands \X Fluxes]} : n \in 0..MaxPhot}

\* JSONLocation(urls, photometry) constructed, generate() not yet called
InitJSON ==
    /\ GenInit({0}, {0}, {DEFAULT_MEDIA_GENERATORS})
    /\ RetryIdle
    /\ json_photometry \in PhotLists
    /\ json_doc = None

\* self.generate() with the default labels and glyphs
json_generate ==
    /\ json_doc = None
    /\ json_doc' = Some(JSONLocation_generate(json_photometry))
    /\ UNCHANGED <<json_photometry, genVars, retryVars>>

NextJSON == json_generate

SpecJSON == InitJSON /\ [][NextJSON]_vars

\* ======================================================================
\* Properties
\* ======================================================================
Objs == DOMAIN numGroups

RECURSIVE GroupsUpTo(_)
\* number of groups of objects 1..i in the catalogue
GroupsUpTo(i) == IF i = 0 THEN 0 ELSE numGroups[i] + GroupsUpTo(i - 1)

TotalGroups == GroupsUpTo(Cardinality(Objs))

\* rank of group pos = <<i, j>> in (object order, within-object order)
GroupIndex(pos) == GroupsUpTo(pos[1] - 1) + pos[2]

InnerExhausted == obj_image_urls = None \/ obj_image_urls[1] = <<>>

\* the group after pos in (object order, within-object order), NoPos if none
NextPos(pos) ==
    IF pos[2] < numGroups[pos[1]] THEN <<pos[1], pos[2] + 1>>
    ELSE LET later == {k \in Objs : k > pos[1] /\ numGroups[k] > 0} IN
         IF later = {} THEN NoPos
         ELSE <<CHOOSE k \in later : \A m \in later : k <= m, 1>>

\* C1: draining the iterator until its first StopIteration yields exactly
\* n_1 + ... + n_M subjects, one per group, in (object order, within-object
\* order), whatever objects have zero groups. Stated for runs in which no
\* call raised anything else: at the first StopIteration every group of the
\* catalogue has been yielded, and each yielded subject is that of the next
\* group in order.
C1_DrainYieldsEveryGroup ==
    ~errored =>
        /\ (ret.result = "subject" => GroupIndex(ret.pos) = yieldedCount)
        /\ (ret.result = "StopIteration" /\ stops = 1
                => yieldedCount = TotalGroups)

\* C2: __next__ signals StopIteration only when both the current object's
\* group sequence and the object-id sequence are exhausted; never while
\* ids remain in obj_ids.
C2_StopOnlyWhenAllExhausted ==
    ret.result = "StopIteration" => (obj_ids = <<>> /\ InnerExhausted)

\* C3: one __next__ call pulls at most one id and fetches at most once. With
\* the current object's groups exhausted (or nothing fetched yet) and ids
\* left it pulls exactly the next id and fetches it once; with groups left
\* it pulls nothing. After a successful fetch it draws the new object's
\* first group, and if the new object has no groups that same call signals
\* StopIteration without pulling a further id.
C3_OneFetchOneRetry ==
    [][ /\ Len(ret'.fetched) <= 1
        /\ Len(ret'.pulled) <= 1
        /\ (InnerExhausted /\ obj_ids # <<>>
              => /\ ret'.pulled = <<Head(obj_ids)>>
                 /\ Len(ret'.fetched) = 1
                 /\ obj_ids' = Tail(obj_ids))
        /\ (~InnerExhausted => ret'.pulled = <<>> /\ obj_ids' = obj_ids)
        /\ (ret'.fetched = <<"ok">>
              => IF numGroups[ret'.pulled[1]] > 0
                 THEN /\ ret'.pos = <<ret'.pulled[1], 1>>
                      /\ Len(obj_image_urls'[1]) = numGroups[ret'.pulled[1]] - 1
                 ELSE /\ ret'.result = "StopIteration"
                      /\ obj_image_urls' = Some(<<>>)
                      /\ obj_ids' = Tail(obj_ids))
      ]_vars

\* C3 witness: a call fetched an object without groups and signalled
\* StopIteration although ids remain
C3_Witness ==
    /\ ret.fetched = <<"ok">>
    /\ ret.result = "StopIteration"
    /\ obj_ids # <<>>

\* C5: when lasair.object fails during __next__, that call raises the
\* failure, has fetched exactly once, and yields no subject nor exhaustion.
C5_FetchFailurePropagates ==
    (\E k \in 1..Len(ret.fetched) : ret.fetched[k] = "raise") =>
        /\ ret.result = "raise"
        /\ ret.exc = "FetchError"
        /\ Len(ret.fetched) = 1
        /\ ret.subject = <<>>
        /\ ret.adds = 0

\* C5 witness: a call whose fetch failed, made after a subject was yielded
C5_Witness ==
    /\ ret.fetched = <<"raise">>
    /\ ret.result = "raise"
    /\ yieldedCount > 0

\* C6: generate makes no add_location call unless every configured
\* renderer's as_file returned: a call that raises from a renderer has made
\* zero add_location calls and returns no subject.
C6_NoPartialBundle ==
    /\ (ret.result = "raise" => ret.adds = 0 /\ ret.subject = <<>>)
    /\ (ret.adds > 0 =>
            ret.result = "subject" /\ ret.adds = Len(media_generators))

\* C6 witness: the second of the default renderers failed on a missing
\* Template label after the first had rendered (and closed) its figure
C6_Witness ==
    /\ media_generators = DEFAULT_MEDIA_GENERATORS
    /\ ret.result = "raise"
    /\ ret.exc = "KeyError"
    /\ ret.urls # None
    /\ ret.closed = 1

\* C7: a returned subject has exactly len(media_generators) locations, the
\* k-th being the (payload, MIME type) of the k-th configured renderer for
\* the group; under the default list: three image/png entries, of the
\* Science, Template and Difference cutouts in that order.
C7_LocationsInRendererOrder ==
    ret.result = "subject" =>
        /\ Len(ret.subject) = Len(media_generators)
        /\ \A k \in 1..Len(media_generators) :
              ret.subject[k] =
                  as_file(media_generators[k], ret.urls[1], ret.photometry,
                          AllGood, "none").loc[1]
        /\ (media_generators = DEFAULT_MEDIA_GENERATORS =>
              /\ Len(ret.subject) = 3
              /\ \A k \in 1..3 :
                    /\ ret.subject[k].mime = "image/png"
                    /\ ret.subject[k].data =
                           <<"png", <<ret.urls[1][LabelOrder[k]]>>>>)

\* C7 witness: a subject returned under the default renderer list
C7_Witness ==
    /\ ret.result = "subject"
    /\ media_generators = DEFAULT_MEDIA_GENERATORS

C9_FiguresClosed ==
    /\ ret.opened = ret.closed
    /\ openFigs = 0

RenderFailed(r) ==
    /\ r.result = "raise"
    /\ r.urls # None
    /\ r.exc \in {"KeyError", "ValueError"}

\* C10: after a __next__ call raised because a renderer failed for a group
\* (missing label, no 2-D data), the following call yields the subject of
\* the next group in (object order, within-object order), and no object is
\* fetched twice. Stated for a following call that does not itself raise and
\* a catalogue that holds a next group.
C10_ResumesAtNextGroup ==
    [][ (RenderFailed(ret) /\ NextPos(ret.pos) # NoPos /\ ret'.result # "raise")
          => /\ ret'.result = "subject"
             /\ ret'.pos = NextPos(ret.pos)
             /\ \A i \in Objs : fetchCount'[i] <= 1
      ]_vars

\* C4: network_retry invokes f at most 10 times; it stops at the first
\* invocation that returns and hands that result over; when all 10
\* invocations raise a transient exception it re-raises the 10th one; it
\* has slept the fixed delay once per failed transient attempt.
C4_RetryBounded ==
    /\ attempts <= RETRY_ATTEMPTS
    /\ lastF.n = attempts
    /\ (lastF.kind = "return" => pc = "returned" /\ outcome = Some(lastF))
    /\ (pc = "returned" => lastF.kind = "return")
    /\ (pc = "raised" /\ lastF.what \in Transient =>
            /\ attempts = RETRY_ATTEMPTS
            /\ outcome = Some(lastF))
    /\ (lastF.kind = "raise" /\ lastF.what \in Transient =>
            slept = RETRY_DELAY * attempts)
    /\ (lastF.kind = "raise" /\ lastF.what \in Transient
          /\ attempts < RETRY_ATTEMPTS => pc = "loop")

\* C4 witness: all 10 invocations raised transient exceptions and the 10th
\* was re-raised
C4_Witness ==
    /\ pc = "raised"
    /\ attempts = RETRY_ATTEMPTS
    /\ lastF.what \in Transient
    /\ final_e # None
    /\ outcome = Some(final_e[1])

\* the bands of the JSONLocation's photometry, the position at which each
\* first appears, and its rank by first appearance
JsonBands == {json_photometry[k].band : k \in 1..Len(json_photometry)}
FirstAt(b) ==
    CHOOSE k \in 1..Len(json_photometry) :
        /\ json_photometry[k].band = b
        /\ \A m \in 1..(k - 1) : json_photometry[m].band # b
RankOf(b) == Cardinality({c \in JsonBands : FirstAt(c) < FirstAt(b)}) + 1

\* C11: generate with default labels and glyphs makes one series per
\* distinct band, in order of first appearance; a band's seriesData lists
\* its records' (midpointMjdTai, psfFlux) pairs in record order, as many as
\* the band has records; series i (from 0) is styled GLYPHS[i mod 2], so the
\* third series has the first one's color and glyph.
C11_SeriesPerBand ==
    json_doc # None =>
        LET doc == json_doc[1].data IN
        /\ Len(doc) = Cardinality(JsonBands)
        /\ \A b \in JsonBands :
              LET i == RankOf(b)
                  OfBand(p) == p.band = b
                  recs == SelectSeq(json_photometry, OfBand)
              IN /\ Len(doc[i].seriesData) = Len(recs)
                 /\ \A k \in 1..Len(recs) :
                       doc[i].seriesData[k] =
                           [x |-> recs[k].midpointMjdTai, y |-> recs[k].psfFlux]
                 /\ doc[i].seriesOptions.label = "Lightcurve"
                 /\ <<doc[i].seriesOptions.color, doc[i].seriesOptions.glyph>>
                       = IF i % 2 = 1 THEN <<"white", "circle">>
                         ELSE <<"red", "square">>
        /\ (Len(doc) >= 3 =>
              /\ doc[3].seriesOptions.color = doc[1].seriesOptions.color
              /\ doc[3].seriesOptions.glyph = doc[1].seriesOptions.glyph)

\* C11 witness: a document of three series, made from three bands
C11_Witness ==
    /\ json_doc # None
    /\ Len(json_doc[1].data) = 3
    /\ Cardinality(JsonBands) = 3

\* C12: generate groups the photometry by band and leaves out every record
\* whose psfFlux is NaN: no seriesData entry carries a NaN flux, and each
\* series holds exactly its band's records of non-NaN flux.
C12_NaNFluxExcluded ==
    json_doc # None =>
        LET doc == json_doc[1].data IN
        /\ \A i \in 1..Len(doc) : \A k \in 1..Len(doc[i].seriesData) :
              doc[i].seriesData[k].y # NaN
        /\ \A b \in JsonBands :
              LET Kept(p) == p.band = b /\ p.psfFlux # NaN
              IN RankOf(b) <= Len(doc) =>
                    Len(doc[RankOf(b)].seriesData)
                        = Len(SelectSeq(json_photometry, Kept))

\* C13: object ids are pulled from the caller's sequence left to right,
\* each at most once; construction fetches nothing; every fetch is of the
\* id at the head of obj_ids and happens in a __next__ call made when no
\* group of the previously fetched object is left to draw.
C13_LazyLeftToRight ==
    /\ [](/\ \A i \in Objs : fetchCount[i] <= 1
          /\ obj_ids = [k \in 1..Len(obj_ids) |->
                           Cardinality(Objs) - Len(obj_ids) + k]
          /\ \A i \in Objs :
                fetchCount[i] = 1 => \A k \in 1..Len(obj_ids) : obj_ids[k] > i
          /\ (ret.result = "none" => \A i \in Objs : fetchCount[i] = 0))
    /\ [][ \A i \in Objs :
              fetchCount'[i] # fetchCount[i]
                  => /\ InnerExhausted
                     /\ obj_ids # <<>>
                     /\ i = Head(obj_ids)
                     /\ obj_ids' = Tail(obj_ids)
                     /\ \A j \in Objs : j # i => fetchCount'[j] = fetchCount[j]
         ]_vars

\* C13 witness: the second object was fetched, after both groups of the
\* first had been drawn and yielded
C13_Witness ==
    /\ Cardinality(Objs) = 2
    /\ numGroups[1] = 2
    /\ fetchCount[2] = 1
    /\ yieldedCount >= 2

\* C14: an exception of f outside ProxyError, ConnectionError and
\* PanoptesAPIException (JSONDecodeError among them) leaves network_retry
\* at once, whatever the attempt: f is not invoked again and no delay
\* follows it, however many transient failures came before.
C14_OtherErrorsPropagate ==
    (lastF.kind = "raise"
     /\ lastF.what \notin {"ProxyError", "ConnectionError",
                            "PanoptesAPIException"}) =>
        /\ pc = "raised"
        /\ outcome = Some(lastF)
        /\ attempts = lastF.n
        /\ slept = RETRY_DELAY * (attempts - 1)
        /\ ~ENABLED retry_attempt

\* C14 witness: a JSONDecodeError on a later attempt, after transient
\* failures, reached the caller
C14_Witness ==
    /\ pc = "raised"
    /\ lastF.what = "JSONDecodeError"
    /\ attempts >= 3
    /\ final_e # None
    /\ outcome = Some(lastF)

====
